---- MODULE Spec2Model ----
(***************************************************************************)
(* Model of the row/column data layer of clickhouse-rs:                    *)
(*   src/src/types/column/fixed_string.rs  fixed-width string storage and  *)
(*                                         its two write-only adapters     *)
(*   src/src/block/block.rs                Block: construction, access,    *)
(*                                         wire codec, concat, chunking    *)
(* Bytes are naturals 0..255, byte strings are sequences of bytes.  An     *)
(* operation that can abort returns a record [tag, val] whose tag is       *)
(* "Ok", "Err" (a recoverable FromSqlError / decode error) or "Panic".     *)
(***************************************************************************)
EXTENDS Integers, Sequences, FiniteSets, TLC

VARIABLES fsd, pushed, nfa, block, enc, iter, res

vars == <<fsd, pushed, nfa, block, enc, iter, res>>

(***************************************************************************)
(* Bounds of the model.                                                    *)
(***************************************************************************)
\* widest fixed-width string column the model builds
MaxStrLen == 3
\* longest sequence of push calls on one FixedStringColumnData
MaxPush == 3
\* most elements of the column a nullable adapter wraps
MaxElems == 2
\* most rows of a column handed to add_column
MaxRows == 2
\* most columns of a block
MaxCols == 2
\* most rows of a block that concat may build
MaxBlockRows == 4
\* most rows of a block that is read and sent
MaxSendRows == 3
\* largest chunk size asked of chunks()
MaxChunkSize == 3

\* the strings pushed into fixed-width storage: lengths 0..4, so that every
\* width in 1..MaxStrLen sees shorter, equal and longer inputs
StrPool == {<<>>, <<7>>, <<7, 8>>, <<7, 8, 9>>, <<9, 0, 8, 7>>}

\* the cell a caller puts in row i (from 1) of its p-th column (from 0): one
\* or two bytes long, and different for every row and column
CellAt(p, i) == [j \in 1..(1 + ((i + p) % 2)) |-> 10 * (p + 1) + i]

\* the n-row string column a caller hands to add_column as its p-th column
ColumnInput(p, n) == [i \in 1..n |-> CellAt(p, i)]

\* the column names in use: "A" and "B"
Names == {<<65>>, <<66>>}

\* a name no column carries: "Z"
NoName == <<90>>

(***************************************************************************)
(* Vec<u8> helpers                                                         *)
(***************************************************************************)
Min(a, b) == IF a <= b THEN a ELSE b

Zeros(n) == [i \in 1..n |-> 0]

\* Vec::resize(new_len, value): truncates, or extends with value
Resize(v, new_len, value) ==
    IF new_len <= Len(v) THEN SubSeq(v, 1, new_len)
    ELSE v \o [i \in 1..(new_len - Len(v)) |-> value]

\* &v[from..to] (0-based, half-open); the caller checks the range
Slice(v, from, to) == SubSeq(v, from + 1, to)

Ok(v) == [tag |-> "Ok", val |-> v]

Err(e) == [tag |-> "Err", val |-> e]

Panic == [tag |-> "Panic", val |-> <<>>]

\* the last operation's record when nothing has run yet
Idle == [op |-> "none"]

(***************************************************************************)
(* FixedStringColumnData                                                   *)
(***************************************************************************)
\* FixedStringColumnData::with_capacity
FixedWithCapacity(str_len) == [buffer |-> <<>>, str_len |-> str_len]

\* ColumnData::len
FixedLen(d) == Len(d.buffer) \div d.str_len

\* ColumnData::push
FixedPush(d, bs) ==
    LET l == Min(Len(bs), d.str_len)
        old_len == Len(d.buffer)
        extended == d.buffer \o SubSeq(bs, 1, l)
    IN  [d EXCEPT !.buffer = Resize(extended, old_len + (d.str_len - l), 0)]

\* ColumnData::at: the slice index panics when it runs past the buffer
FixedAt(d, index) ==
    LET shift == index * d.str_len
    IN  IF shift + d.str_len <= Len(d.buffer)
        THEN Ok(Slice(d.buffer, shift, shift + d.str_len))
        ELSE Panic

\* ColumnData::save
FixedSave(d, start, end) ==
    LET start_index == start * d.str_len
        end_index == end * d.str_len
    IN  IF start_index <= end_index /\ end_index <= Len(d.buffer)
        THEN Ok(Slice(d.buffer, start_index, end_index))
        ELSE Panic

\* bs as a fixed-width value: the first str_len bytes, zero-padded
Padded(bs, str_len) == Resize(bs, str_len, 0)

(***************************************************************************)
(* Specification SpecFixed: one FixedStringColumnData, created empty and   *)
(* then pushed into and saved.                                             *)
(***************************************************************************)
OtherIdle ==
    /\ nfa = [column |-> <<>>, str_len |-> 1]
    /\ block = [info |-> [is_overflows |-> 0, bucket_num |-> -1], columns |-> <<>>]
    /\ enc = <<>>
    /\ iter = [active |-> FALSE]

InitFixed ==
    /\ \E n \in 1..MaxStrLen : fsd = FixedWithCapacity(n)
    /\ pushed = <<>>
    /\ res = Idle
    /\ OtherIdle

Push(bs) ==
    /\ Len(pushed) < MaxPush
    /\ fsd' = FixedPush(fsd, bs)
    /\ pushed' = Append(pushed, bs)
    /\ res' = [op |-> "push", before |-> fsd, value |-> bs]
    /\ UNCHANGED <<nfa, block, enc, iter>>

SaveFixed(start, end) ==
    /\ start <= end
    /\ end <= FixedLen(fsd)
    /\ res' = [op |-> "save", before |-> fsd, value |-> FixedSave(fsd, start, end).val]
    /\ UNCHANGED <<fsd, pushed, nfa, block, enc, iter>>

NextFixed ==
    \/ \E bs \in StrPool : Push(bs)
    \/ \E start \in 0..MaxPush, end \in 0..MaxPush : SaveFixed(start, end)

SpecFixed == InitFixed /\ [][NextFixed]_vars

\* C1: after push(s) the newly appended element holds exactly str_len bytes,
\* the first str_len bytes of s zero-padded to str_len, and at() of that
\* element returns exactly those bytes.
C1_PushStoresFixedWidth ==
    res.op = "push" =>
        LET old_len == Len(res.before.buffer)
        IN  /\ Len(fsd.buffer) = old_len + fsd.str_len
            /\ SubSeq(fsd.buffer, old_len + 1, Len(fsd.buffer))
                   = Padded(res.value, fsd.str_len)
            /\ FixedAt(fsd, Len(pushed) - 1) = Ok(Padded(res.value, fsd.str_len))

\* C9: after k pushes the buffer holds k*str_len bytes, len() = k, and at(i)
\* is the i-th pushed value truncated/zero-padded to str_len, for every i < k
\* (so no later push changed an earlier element).
C9_BufferLayout ==
    /\ Len(fsd.buffer) = Len(pushed) * fsd.str_len
    /\ FixedLen(fsd) = Len(pushed)
    /\ \A i \in 0..(Len(pushed) - 1) :
           FixedAt(fsd, i) = Ok(Padded(pushed[i + 1], fsd.str_len))

(***************************************************************************)
(* NullableFixedStringAdapter.  The wrapped column is the sequence of what *)
(* Option::from_sql(column.at(i)) yields: [null, bytes] per element.       *)
(***************************************************************************)
RECURSIVE Flatten(_)
Flatten(ss) == IF ss = <<>> THEN <<>> ELSE Head(ss) \o Flatten(Tail(ss))

\* NullableFixedStringAdapter::len
NullableLen(a) == Len(a.column)

\* a save that writes each element's mask byte right before its payload
NullableSaveInterleaved(a, start, end) ==
    IF start <= end /\ end <= Len(a.column)
    THEN Ok(Flatten([i \in 1..(end - start) |->
                LET v == a.column[start + i]
                IN  <<IF v.null THEN 1 ELSE 0>>
                    \o Resize(IF v.null THEN <<>> ELSE v.bytes, a.str_len, 0)]))
    ELSE Panic

\* NullableFixedStringAdapter::save: what it hands to encoder.write_bytes
NullableSave(a, start, end) ==
    IF start <= end /\ end <= Len(a.column)
    THEN LET size == end - start
             values == [i \in 1..size |-> a.column[start + i]]
             nulls == [i \in 1..size |-> IF values[i].null THEN 1 ELSE 0]
             payload == [i \in 1..size |->
                            Resize(IF values[i].null THEN <<>> ELSE values[i].bytes,
                                   a.str_len, 0)]
         IN  Ok(nulls \o Flatten(payload))
    ELSE Panic

NullableVals ==
    {[null |-> TRUE, bytes |-> <<>>]} \cup {[null |-> FALSE, bytes |-> b] : b \in StrPool}

RECURSIVE SeqsUpTo(_, _)
SeqsUpTo(S, n) ==
    IF n = 0 THEN {<<>>}
    ELSE LET shorter == SeqsUpTo(S, n - 1)
         IN  shorter \cup {Append(q, x) : q \in {t \in shorter : Len(t) = n - 1}, x \in S}

InitNullable ==
    /\ \E c \in SeqsUpTo(NullableVals, MaxElems), n \in 1..MaxStrLen :
           nfa = [column |-> c, str_len |-> n]
    /\ fsd = FixedWithCapacity(1)
    /\ pushed = <<>>
    /\ block = [info |-> [is_overflows |-> 0, bucket_num |-> -1], columns |-> <<>>]
    /\ enc = <<>>
    /\ iter = [active |-> FALSE]
    /\ res = Idle

SaveNullable(start, end) ==
    /\ start <= end
    /\ end <= NullableLen(nfa)
    /\ res' = [op |-> "nullable_save", before |-> nfa, start |-> start, end |-> end,
               out |-> NullableSave(nfa, start, end).val]
    /\ UNCHANGED <<fsd, pushed, nfa, block, enc, iter>>

NextNullable == \E start \in 0..MaxElems, end \in 0..MaxElems : SaveNullable(start, end)

SpecNullable == InitNullable /\ [][NextNullable]_vars

\* C10: save(start, end) emits (end-start)*(1+str_len) bytes: the end-start
\* mask bytes first (1 = null), then the end-start payloads of str_len bytes
\* each, zero for a null and the truncated/zero-padded bytes otherwise; the
\* wrapped column is left as it was.
C10_NullableSaveLayout ==
    res.op = "nullable_save" =>
        LET size == res.end - res.start
            k == nfa.str_len
        IN  /\ Len(res.out) = size * (1 + k)
            /\ \A j \in 0..(size - 1) :
                   LET v == nfa.column[res.start + j + 1]
                   IN  /\ res.out[j + 1] = (IF v.null THEN 1 ELSE 0)
                       /\ SubSeq(res.out, size + j * k + 1, size + (j + 1) * k)
                              = (IF v.null THEN Zeros(k) ELSE Padded(v.bytes, k))
            /\ nfa = res.before

\* a save of a null element followed by an over-long element
C10_Witness ==
    /\ res.op = "nullable_save"
    /\ res.end - res.start = 2
    /\ nfa.column[res.start + 1].null
    /\ ~nfa.column[res.start + 2].null
    /\ Len(nfa.column[res.start + 2].bytes) > nfa.str_len

(***************************************************************************)
(* Encoder / ReadEx primitives.  A reader is the sequence of bytes still   *)
(* unread; a read returns [tag, val, rest].                                *)
(***************************************************************************)
RECURSIVE Uvarint(_)
\* Encoder::uvarint: little-endian base-128, high bit = more bytes follow
Uvarint(n) == IF n < 128 THEN <<n>> ELSE <<128 + (n % 128)>> \o Uvarint(n \div 128)

\* Encoder::string: length-prefixed bytes
EncString(bs) == Uvarint(Len(bs)) \o bs

Got(v, rest) == [tag |-> "Ok", val |-> v, rest |-> rest]

Failed(e) == [tag |-> "Err", val |-> e, rest |-> <<>>]

Aborted == [tag |-> "Panic", val |-> <<>>, rest |-> <<>>]

RECURSIVE ReadUvarint(_)
\* ReadEx::read_uvarint
ReadUvarint(r) ==
    IF r = <<>> THEN Failed("eof")
    ELSE IF Head(r) < 128 THEN Got(Head(r), Tail(r))
    ELSE LET more == ReadUvarint(Tail(r))
         IN  IF more.tag # "Ok" THEN more
             ELSE Got((Head(r) - 128) + 128 * more.val, more.rest)

\* ReadEx::read_bytes: fills a buffer of n bytes or fails
ReadBytes(r, n) ==
    IF Len(r) < n THEN Failed("eof")
    ELSE Got(SubSeq(r, 1, n), SubSeq(r, n + 1, Len(r)))

\* ReadEx::read_string
ReadString(r) ==
    LET n == ReadUvarint(r)
    IN  IF n.tag # "Ok" THEN n ELSE ReadBytes(n.rest, n.val)

\* an i32 as four little-endian bytes (two's complement)
I32LE(x) ==
    <<x % 256, (x \div 256) % 256, (x \div 65536) % 256, (x \div 16777216) % 256>>

\* four little-endian bytes as an i32
I32FromLE(b) ==
    b[1] + 256 * b[2] + 65536 * b[3]
        + 16777216 * (IF b[4] >= 128 THEN b[4] - 256 ELSE b[4])

(***************************************************************************)
(* BlockInfo                                                               *)
(***************************************************************************)
\* BlockInfo::default
DefaultInfo == [is_overflows |-> 0, bucket_num |-> -1]

\* BlockInfo::write: field 1 = is_overflows, field 2 = bucket_num, 0 = end
InfoWrite(info) ==
    Uvarint(1) \o <<info.is_overflows>> \o Uvarint(2) \o I32LE(info.bucket_num)
        \o Uvarint(0)

RECURSIVE InfoReadFrom(_, _)
InfoReadFrom(info, r) ==
    LET field == ReadUvarint(r)
    IN  IF field.tag # "Ok" THEN field
        ELSE IF field.val = 0 THEN Got(info, field.rest)
        ELSE IF field.val = 1
             THEN LET b == ReadBytes(field.rest, 1)
                  IN  IF b.tag # "Ok" THEN b
                      ELSE InfoReadFrom([info EXCEPT !.is_overflows = b.val[1]], b.rest)
        ELSE IF field.val = 2
             THEN LET b == ReadBytes(field.rest, 4)
                  IN  IF b.tag # "Ok" THEN b
                      ELSE InfoReadFrom([info EXCEPT !.bucket_num = I32FromLE(b.val)],
                                        b.rest)
        ELSE Failed("unknown field")

\* BlockInfo::read
InfoRead(r) == InfoReadFrom(DefaultInfo, r)

(***************************************************************************)
(* Column: a name and one storage.  kind is "String" (the generic string   *)
(* storage, cells in values), "FixedString" (FixedStringColumnData, bytes  *)
(* in buffer) or "FixedStringAdapter" (FixedStringAdapter over a string    *)
(* column whose cells are values).                                         *)
(***************************************************************************)
\* column::new_column over ColumnFrom for a vector of strings
StringColumn(name, values) ==
    [name |-> name, kind |-> "String", str_len |-> 0, values |-> values, buffer |-> <<>>]

FixedColumn(name, d) ==
    [name |-> name, kind |-> "FixedString", str_len |-> d.str_len, values |-> <<>>,
     buffer |-> d.buffer]

\* FixedStringAdapter {column, str_len}
AdapterColumn(c, str_len) ==
    [name |-> c.name, kind |-> "FixedStringAdapter", str_len |-> str_len,
     values |-> c.values, buffer |-> <<>>]

FixedData(c) == [buffer |-> c.buffer, str_len |-> c.str_len]

\* Column::len
ColumnLen(c) ==
    IF c.kind = "FixedString" THEN FixedLen(FixedData(c)) ELSE Len(c.values)

\* Column::at; FixedStringAdapter::at forwards to the wrapped column
ColumnAt(c, index) ==
    IF c.kind = "FixedString" THEN FixedAt(FixedData(c), index)
    ELSE IF index < Len(c.values) THEN Ok(c.values[index + 1])
    ELSE Err("OutOfRange")

\* the cells of a column, in row order
ColumnValues(c) == [i \in 1..ColumnLen(c) |-> ColumnAt(c, i - 1).val]

\* FixedStringAdapter::save
AdapterSave(c, start, end) ==
    IF start <= end /\ end <= Len(c.values)
    THEN Ok(Flatten([i \in 1..(end - start) |-> Resize(c.values[start + i], c.str_len, 0)]))
    ELSE Panic

\* the generic string storage's save: each cell length-prefixed
StringSave(c, start, end) ==
    IF start <= end /\ end <= Len(c.values)
    THEN Ok(Flatten([i \in 1..(end - start) |-> EncString(c.values[start + i])]))
    ELSE Panic

\* ColumnData::save by storage
ColumnSave(c, start, end) ==
    IF c.kind = "FixedString" THEN FixedSave(FixedData(c), start, end)
    ELSE IF c.kind = "FixedStringAdapter" THEN AdapterSave(c, start, end)
    ELSE StringSave(c, start, end)

RECURSIVE Digits(_)
Digits(n) == IF n < 10 THEN <<48 + n>> ELSE Digits(n \div 10) \o <<48 + (n % 10)>>

\* "String"
StringTypeName == <<83, 116, 114, 105, 110, 103>>

\* "FixedString("
FixedTypePrefix == <<70, 105, 120, 101, 100, 83, 116, 114, 105, 110, 103, 40>>

\* sql_type() as text: String, or FixedString(str_len) for the fixed-width
\* storage and for the adapter
TypeName(c) ==
    IF c.kind = "String" THEN StringTypeName
    ELSE FixedTypePrefix \o Digits(c.str_len) \o <<41>>

RECURSIVE ParseNat(_, _)
\* decimal digits to a number; -1 when a byte is no digit
ParseNat(bs, acc) ==
    IF bs = <<>> THEN acc
    ELSE IF Head(bs) < 48 \/ Head(bs) > 57 THEN -1
    ELSE ParseNat(Tail(bs), 10 * acc + (Head(bs) - 48))

\* the width in "FixedString(<width>)", -1 when the text is something else
FixedWidthOf(t) ==
    LET p == Len(FixedTypePrefix)
    IN  IF Len(t) >= p + 2 /\ SubSeq(t, 1, p) = FixedTypePrefix /\ t[Len(t)] = 41
        THEN ParseNat(SubSeq(t, p + 1, Len(t) - 1), 0)
        ELSE -1

\* Column::write
ColumnWrite(c) ==
    EncString(c.name) \o EncString(TypeName(c)) \o ColumnSave(c, 0, ColumnLen(c)).val

\* FixedStringColumnData::load
FixedLoad(r, size, str_len) ==
    LET b == ReadBytes(r, size * str_len)
    IN  IF b.tag # "Ok" THEN b
        ELSE Got([buffer |-> b.val, str_len |-> str_len], b.rest)

RECURSIVE StringLoad(_, _, _)
\* the generic string storage's load: size length-prefixed cells
StringLoad(r, size, acc) ==
    IF size = 0 THEN Got(acc, r)
    ELSE LET s == ReadString(r)
         IN  IF s.tag # "Ok" THEN s ELSE StringLoad(s.rest, size - 1, Append(acc, s.val))

\* Column::read
ColumnRead(r, size) ==
    LET name == ReadString(r)
    IN  IF name.tag # "Ok" THEN name
        ELSE LET type == ReadString(name.rest)
             IN  IF type.tag # "Ok" THEN type
                 ELSE IF type.val = StringTypeName
                      THEN LET d == StringLoad(type.rest, size, <<>>)
                           IN  IF d.tag # "Ok" THEN d
                               ELSE Got(StringColumn(name.val, d.val), d.rest)
                 ELSE IF FixedWidthOf(type.val) >= 1
                      THEN LET d == FixedLoad(type.rest, size, FixedWidthOf(type.val))
                           IN  IF d.tag # "Ok" THEN d
                               ELSE Got(FixedColumn(name.val, d.val), d.rest)
                 ELSE Failed("unknown type")

\* Column equality: same length and the same cell at every index
ColumnEq(a, b) == ColumnLen(a) = ColumnLen(b) /\ ColumnValues(a) = ColumnValues(b)

\* Column::concat: the cells of the given columns, in the order given
ColumnConcat(cs) ==
    StringColumn(cs[1].name, Flatten([j \in 1..Len(cs) |-> ColumnValues(cs[j])]))

\* Column::slice: rows [from, to) of a column, same name and type
ColumnSlice(c, from, to) ==
    IF c.kind = "FixedString"
    THEN [c EXCEPT !.buffer = Slice(c.buffer, from * c.str_len, to * c.str_len)]
    ELSE [c EXCEPT !.values = Slice(c.values, from, to)]

(***************************************************************************)
(* Block                                                                   *)
(***************************************************************************)
\* Block::new / Block::default
BlockNew == [info |-> DefaultInfo, columns |-> <<>>]

\* Block::row_count
RowCount(b) == IF b.columns = <<>> THEN 0 ELSE ColumnLen(b.columns[1])

\* Block::column_count
ColumnCount(b) == Len(b.columns)

\* Block::is_empty
IsEmpty(b) == b.columns = <<>>

\* a clone that starts from a default header
BlockCloneFreshHeader(b) ==
    [info |-> DefaultInfo, columns |-> [i \in 1..Len(b.columns) |-> b.columns[i]]]

\* Block::clone
BlockClone(b) == [info |-> b.info, columns |-> [i \in 1..Len(b.columns) |-> b.columns[i]]]

\* PartialEq for Block
BlockEq(a, b) ==
    /\ Len(a.columns) = Len(b.columns)
    /\ \A i \in 1..Len(a.columns) : ColumnEq(a.columns[i], b.columns[i])

\* an append_column without the row-count check
AppendColumnUnchecked(b, column) == Ok([b EXCEPT !.columns = Append(@, column)])

\* Block::append_column
AppendColumn(b, column) ==
    LET column_len == ColumnLen(column)
    IN  IF b.columns # <<>> /\ RowCount(b) # column_len
        THEN Panic
        ELSE Ok([b EXCEPT !.columns = Append(@, column)])

\* Block::add_column
AddColumnOp(b, name, values) == AppendColumn(b, StringColumn(name, values))

\* ColumnIdx for usize
GetIndexUsize(i, columns) == Ok(i)

\* ColumnIdx for &str: the first column of that name
GetIndexStr(name, columns) ==
    LET hits == {i \in 1..Len(columns) : columns[i].name = name}
    IN  IF hits = {} THEN Err("OutOfRange")
        ELSE Ok((CHOOSE i \in hits : \A j \in hits : i <= j) - 1)

\* a column selector is [by |-> "index", i |-> n] or [by |-> "name", name |-> s]
GetIndex(sel, columns) ==
    IF sel.by = "index" THEN GetIndexUsize(sel.i, columns) ELSE GetIndexStr(sel.name, columns)

\* Block::get with T = String; indexing self.columns past its end panics
Get(b, row, sel) ==
    LET column_index == GetIndex(sel, b.columns)
    IN  IF column_index.tag # "Ok" THEN column_index
        ELSE IF column_index.val >= Len(b.columns) THEN Panic
        ELSE ColumnAt(b.columns[column_index.val + 1], row)

\* a write that sends the column count where the row count belongs
BlockWriteRowsAsColumns(b) ==
    InfoWrite(b.info) \o Uvarint(ColumnCount(b)) \o Uvarint(ColumnCount(b))
        \o Flatten([i \in 1..Len(b.columns) |-> ColumnWrite(b.columns[i])])

\* BlockEx::write
BlockWrite(b) ==
    InfoWrite(b.info) \o Uvarint(ColumnCount(b)) \o Uvarint(RowCount(b))
        \o Flatten([i \in 1..Len(b.columns) |-> ColumnWrite(b.columns[i])])

RECURSIVE LoadColumns(_, _, _, _)
\* the loop of Block::load
LoadColumns(b, r, left, num_rows) ==
    IF left = 0 THEN Got(b, r)
    ELSE LET column == ColumnRead(r, num_rows)
         IN  IF column.tag # "Ok" THEN column
             ELSE LET appended == AppendColumn(b, column.val)
                  IN  IF appended.tag # "Ok" THEN Aborted
                      ELSE LoadColumns(appended.val, column.rest, left - 1, num_rows)

\* Block::load
BlockLoad(r) ==
    LET info == InfoRead(r)
    IN  IF info.tag # "Ok" THEN info
        ELSE LET num_columns == ReadUvarint(info.rest)
             IN  IF num_columns.tag # "Ok" THEN num_columns
                 ELSE LET num_rows == ReadUvarint(num_columns.rest)
                      IN  IF num_rows.tag # "Ok" THEN num_rows
                          ELSE LoadColumns([info |-> info.val, columns |-> <<>>],
                                           num_rows.rest, num_columns.val, num_rows.val)

\* a concat that walks the blocks last to first
ConcatReversed(blocks) ==
    IF blocks = <<>> THEN Panic
    ELSE IF \E j \in 1..Len(blocks) : ColumnCount(blocks[1]) # ColumnCount(blocks[j])
    THEN Panic
    ELSE Ok([info |-> blocks[1].info,
             columns |-> [i \in 1..ColumnCount(blocks[1]) |->
                 ColumnConcat([j \in 1..Len(blocks) |->
                                  blocks[Len(blocks) + 1 - j].columns[i]])]])

\* BlockEx::concat
Concat(blocks) ==
    IF blocks = <<>> THEN Panic
    ELSE IF \E j \in 1..Len(blocks) : ColumnCount(blocks[1]) # ColumnCount(blocks[j])
    THEN Panic
    ELSE Ok([info |-> blocks[1].info,
             columns |-> [i \in 1..ColumnCount(blocks[1]) |->
                 ColumnConcat([j \in 1..Len(blocks) |-> blocks[j].columns[i]])]])

(***************************************************************************)
(* ChunkIterator: a chunk size, a position and the block it borrows         *)
(***************************************************************************)
\* one chunk is at most this many rows when a block is sent (the program's
\* value is 1048576; the model scales it so that a block can exceed it)
INSERT_BLOCK_SIZE == 2

\* protocol::CLIENT_DATA
CLIENT_DATA == 2

\* ChunkIterator::new
ChunkIteratorNew(n, b) == [size |-> n, position |-> 0, block |-> b]

\* a chunks that always cuts at the insert block size
ChunksOfInsertSize(b, n) == ChunkIteratorNew(INSERT_BLOCK_SIZE, b)

\* BlockEx::chunks
Chunks(b, n) == ChunkIteratorNew(n, b)

\* Iterator::next: [some, chunk, it]; some = FALSE is None
ChunkNext(it) ==
    LET b == it.block
        m == RowCount(b)
    IN  IF IsEmpty(b) /\ it.position = 0
        THEN [some |-> TRUE, chunk |-> BlockClone(b), it |-> [it EXCEPT !.position = 1]]
        ELSE IF it.position >= m
        THEN [some |-> FALSE, chunk |-> BlockNew, it |-> it]
        ELSE LET to == Min(it.position + it.size, m)
             IN  [some |-> TRUE,
                  chunk |-> [info |-> DefaultInfo,
                             columns |-> [i \in 1..Len(b.columns) |->
                                 ColumnSlice(b.columns[i], it.position, to)]],
                  it |-> [it EXCEPT !.position = it.position + it.size]]

RECURSIVE Drain(_)
\* every chunk the iterator still yields, in order
Drain(it) ==
    LET step == ChunkNext(it)
    IN  IF step.some THEN <<step.chunk>> \o Drain(step.it) ELSE <<>>

\* BlockEx::send_data
SendData(b) ==
    LET chunks == Drain(Chunks(b, INSERT_BLOCK_SIZE))
    IN  Uvarint(CLIENT_DATA) \o EncString(<<>>)
            \o Flatten([k \in 1..Len(chunks) |-> BlockWrite(chunks[k])])

(***************************************************************************)
(* Specification Spec: one Block and what a caller does with it.  Every    *)
(* operation records itself in res; the encoder buffer enc is handed to    *)
(* the transport, and a chunk iterator dropped, before the next operation. *)
(***************************************************************************)
NoIter == [active |-> FALSE]

\* the lists of blocks a caller hands to concat: 0 is the block itself, 1 an
\* empty block, 2 and 3 the block's first and last single-row chunks
OperandLists ==
    {<<>>, <<0>>, <<0, 0>>, <<2, 0>>, <<0, 3>>, <<3, 2>>, <<0, 1>>, <<1, 1>>, <<3, 0, 2>>,
     <<2, 3, 3>>}

Operand(b, which) ==
    LET singles == Drain(Chunks(b, 1))
    IN  CASE which = 0 -> b
          [] which = 1 -> BlockNew
          [] which = 2 -> singles[1]
          [] OTHER -> singles[Len(singles)]

RECURSIVE SumRows(_)
SumRows(blocks) ==
    IF blocks = <<>> THEN 0
    ELSE (IF Head(blocks).columns = <<>> THEN 0 ELSE ColumnLen(Head(blocks).columns[1]))
             + SumRows(Tail(blocks))

\* what may arrive for load once enc was written: the bytes themselves, the
\* bytes cut short, and the bytes with the header's is_overflows flag set
WireInputs(w) ==
    IF w = <<>> THEN {w}
    ELSE {w, SubSeq(w, 1, Len(w) - 1), [w EXCEPT ![2] = 1]}

Selectors ==
    {[by |-> "index", i |-> i, name |-> <<>>] : i \in 0..MaxCols}
        \cup {[by |-> "name", i |-> 0, name |-> n] : n \in Names \cup {NoName}}

Init ==
    /\ block = BlockNew
    /\ enc = <<>>
    /\ iter = NoIter
    /\ res = Idle
    /\ fsd = FixedWithCapacity(1)
    /\ pushed = <<>>
    /\ nfa = [column |-> <<>>, str_len |-> 1]

Untouched == UNCHANGED <<fsd, pushed, nfa>>

NewBlock ==
    /\ block' = BlockNew
    /\ enc' = <<>>
    /\ iter' = NoIter
    /\ res' = [op |-> "new"]
    /\ Untouched

\* the block holds what its caller put in with add_column and nothing else
UnderConstruction(b) ==
    \A p \in 1..Len(b.columns) :
        /\ b.columns[p].kind = "String"
        /\ b.columns[p].values = ColumnInput(p - 1, Len(b.columns[p].values))

\* add_column takes the block by value: when it panics the block is gone.
\* Callers add columns to the blocks they are building, up to MaxCols.
AddColumn(name, n) ==
    /\ ColumnCount(block) < MaxCols
    /\ UnderConstruction(block)
    /\ LET r == AddColumnOp(block, name, ColumnInput(ColumnCount(block), n))
       IN  /\ block' = (IF r.tag = "Ok" THEN r.val ELSE BlockNew)
           /\ res' = [op |-> "add_column", before |-> block, rows |-> n, tag |-> r.tag]
    /\ enc' = <<>>
    /\ iter' = NoIter
    /\ Untouched

ConcatBlocks(which) ==
    LET blocks == [j \in 1..Len(which) |-> Operand(block, which[j])]
        r == Concat(blocks)
    IN  /\ block.columns # <<>>
        /\ RowCount(block) >= 1
        /\ SumRows(blocks) <= MaxBlockRows
        /\ block' = (IF r.tag = "Ok" THEN r.val ELSE block)
        /\ res' = [op |-> "concat", inputs |-> blocks, tag |-> r.tag]
        /\ enc' = <<>>
        /\ iter' = NoIter
        /\ Untouched

WriteBlock ==
    /\ enc' = BlockWrite(block)
    /\ res' = [op |-> "write"]
    /\ iter' = NoIter
    /\ UNCHANGED block
    /\ Untouched

LoadBlock(w) ==
    /\ res.op = "write"
    /\ LET r == BlockLoad(w)
       IN  /\ block' = (IF r.tag = "Ok" THEN r.val ELSE block)
           /\ res' = [op |-> "load", sent |-> block, wire |-> w, tag |-> r.tag]
    /\ enc' = <<>>
    /\ iter' = NoIter
    /\ Untouched

GetCell(row, sel) ==
    /\ res' = [op |-> "get", row |-> row, sel |-> sel, result |-> Get(block, row, sel)]
    /\ enc' = <<>>
    /\ iter' = NoIter
    /\ UNCHANGED block
    /\ Untouched

StartChunks(n) ==
    /\ iter' = [active |-> TRUE, n |-> n, it |-> Chunks(block, n), yielded |-> <<>>,
                done |-> FALSE]
    /\ res' = [op |-> "chunks"]
    /\ enc' = <<>>
    /\ UNCHANGED block
    /\ Untouched

NextChunk ==
    /\ iter.active
    /\ ~iter.done
    /\ LET step == ChunkNext(iter.it)
       IN  iter' = [iter EXCEPT !.it = step.it,
                                !.yielded = IF step.some THEN Append(@, step.chunk) ELSE @,
                                !.done = ~step.some]
    /\ res' = [op |-> "next"]
    /\ UNCHANGED <<block, enc>>
    /\ Untouched

\* the caller goes on with the chunk it was handed last
AdoptChunk ==
    /\ iter.active
    /\ iter.yielded # <<>>
    /\ block' = iter.yielded[Len(iter.yielded)]
    /\ iter' = NoIter
    /\ res' = [op |-> "adopt"]
    /\ UNCHANGED enc
    /\ Untouched

SendBlock ==
    /\ enc' = SendData(block)
    /\ res' = [op |-> "send_data"]
    /\ iter' = NoIter
    /\ UNCHANGED block
    /\ Untouched

\* a caller that names its columns by position: "A", "B", ...
PositionName(b) == <<65 + ColumnCount(b)>>

Next ==
    \/ NewBlock
    \/ \E n \in 0..MaxRows : AddColumn(PositionName(block), n)
    \/ \E which \in OperandLists : ConcatBlocks(which)
    \/ WriteBlock
    \/ \E w \in WireInputs(enc) : LoadBlock(w)
    \/ \E n \in 1..MaxChunkSize : StartChunks(n)
    \/ NextChunk
    \/ AdoptChunk

Spec == Init /\ [][Next]_vars

(***************************************************************************)
(* Specification SpecUse: a block is built, then read cell by cell and     *)
(* sent.                                                                   *)
(***************************************************************************)
NextUse ==
    \/ NewBlock
    \/ \E name \in Names, n \in 0..MaxSendRows : AddColumn(name, n)
    \/ \E row \in 0..MaxSendRows, sel \in Selectors : GetCell(row, sel)
    \/ SendBlock

SpecUse == Init /\ [][NextUse]_vars

(***************************************************************************)
(* Specification SpecCodec: a block is built, some of its string columns   *)
(* are put behind a FixedStringAdapter, and the block is written and read  *)
(* back.                                                                   *)
(***************************************************************************)
\* a string column is recast to FixedString(str_len) for writing
WrapFixed(i, str_len) ==
    /\ i <= Len(block.columns)
    /\ block.columns[i].kind = "String"
    /\ block' = [block EXCEPT !.columns[i] = AdapterColumn(@, str_len)]
    /\ res' = [op |-> "wrap"]
    /\ enc' = <<>>
    /\ iter' = NoIter
    /\ Untouched

NextCodec ==
    \/ NewBlock
    \/ \E n \in 0..MaxRows : AddColumn(PositionName(block), n)
    \/ \E i \in 1..MaxCols, str_len \in 1..MaxStrLen : WrapFixed(i, str_len)
    \/ WriteBlock
    \/ \E w \in WireInputs(enc) : LoadBlock(w)

SpecCodec == Init /\ [][NextCodec]_vars

(***************************************************************************)
(* Properties                                                              *)
(***************************************************************************)
\* the length of a block's first column, 0 without columns
FirstLen(b) == IF b.columns = <<>> THEN 0 ELSE ColumnLen(b.columns[1])

\* every column is as long as the first, and row_count() says so
EqualLengths(b) ==
    /\ \A i \in 1..Len(b.columns) : ColumnLen(b.columns[i]) = FirstLen(b)
    /\ RowCount(b) = FirstLen(b)

\* the blocks the state holds: the block, the chunks handed out, the blocks
\* last given to concat
BlocksInState ==
    {block}
        \cup (IF iter.active
              THEN {iter.it.block} \cup {iter.yielded[k] : k \in 1..Len(iter.yielded)}
              ELSE {})
        \cup (IF res.op = "concat" THEN {res.inputs[j] : j \in 1..Len(res.inputs)} ELSE {})

\* C2: in every block built by new, add_column, load, concat and chunks all
\* columns have the same length and row_count() is that length (0 without
\* columns); an add_column whose column length differs from the row count of
\* a block that has columns panics.
C2_EqualColumnLengths ==
    /\ \A b \in BlocksInState : EqualLengths(b)
    /\ (res.op = "add_column" /\ res.before.columns # <<>>
            /\ res.rows # FirstLen(res.before))
           => res.tag = "Panic"

\* an add_column of a column of another length on a block with columns
C2_Witness ==
    /\ res.op = "add_column"
    /\ res.before.columns # <<>>
    /\ res.rows # FirstLen(res.before)
    /\ res.tag = "Panic"

\* the rows of the first j blocks of a list
RowsBefore(blocks, j) == SumRows(SubSeq(blocks, 1, j))

\* C5: concat of a non-empty list of blocks with equal column counts returns
\* a block with that column count and the first block's header, whose row
\* count is the sum of the inputs' and whose column i holds column i of each
\* input, the inputs in list order and each input's rows in their order.
C5_ConcatInOrder ==
    (/\ res.op = "concat"
     /\ res.inputs # <<>>
     /\ \A j \in 1..Len(res.inputs) :
            Len(res.inputs[j].columns) = Len(res.inputs[1].columns))
    => /\ res.tag = "Ok"
       /\ Len(block.columns) = Len(res.inputs[1].columns)
       /\ RowCount(block) = SumRows(res.inputs)
       /\ block.info = res.inputs[1].info
       /\ \A i \in 1..Len(block.columns) :
              /\ ColumnLen(block.columns[i]) = SumRows(res.inputs)
              /\ \A j \in 1..Len(res.inputs) :
                     \A r \in 0..(FirstLen(res.inputs[j]) - 1) :
                         ColumnAt(block.columns[i], RowsBefore(res.inputs, j - 1) + r)
                             = ColumnAt(res.inputs[j].columns[i], r)

\* a concat of two different blocks with rows, the first with its own header
C5_Witness ==
    /\ res.op = "concat"
    /\ res.tag = "Ok"
    /\ Len(res.inputs) >= 2
    /\ res.inputs[1] # res.inputs[2]
    /\ FirstLen(res.inputs[1]) >= 1
    /\ FirstLen(res.inputs[2]) >= 1
    /\ res.inputs[1].info # res.inputs[2].info
    /\ Len(block.columns) = 2

\* rows [from, to) of block b: the k-th chunk the claim expects
RowsOf(b, from, to) ==
    [i \in 1..Len(b.columns) |-> SubSeq(ColumnValues(b.columns[i]), from + 1, to)]

\* C6: chunks(n) of a block of N >= 1 rows yields ceil(N/n) blocks in order,
\* the k-th with rows [k*n, min((k+1)*n, N)) of every column under the same
\* names and types; then next() is None; the block itself is not changed.
C6_ChunksInOrder ==
    (iter.active /\ FirstLen(iter.it.block) >= 1) =>
        LET src == iter.it.block
            N == FirstLen(src)
            n == iter.n
            count == (N + n - 1) \div n
        IN  /\ Len(iter.yielded) <= count
            /\ iter.done => Len(iter.yielded) = count
            /\ block = src
            /\ \A k \in 0..(Len(iter.yielded) - 1) :
                   LET chunk == iter.yielded[k + 1]
                   IN  /\ Len(chunk.columns) = Len(src.columns)
                       /\ \A i \in 1..Len(src.columns) :
                              /\ chunk.columns[i].name = src.columns[i].name
                              /\ TypeName(chunk.columns[i]) = TypeName(src.columns[i])
                       /\ RowsOf(chunk, 0, FirstLen(chunk))
                              = RowsOf(src, k * n, Min((k + 1) * n, N))
                       /\ \A i \in 1..Len(chunk.columns) :
                              ColumnLen(chunk.columns[i]) = Min((k + 1) * n, N) - k * n

\* three rows cut into a chunk of two and a chunk of one, and then None
C6_Witness ==
    /\ iter.active
    /\ iter.done
    /\ FirstLen(iter.it.block) = 3
    /\ iter.n = 2
    /\ Len(iter.yielded) = 2
    /\ Len(iter.it.block.columns) = 2

\* C7: chunks(n) of a block without columns yields one chunk, the block
\* itself, and then ends.
C7_EmptyBlockOneChunk ==
    (iter.active /\ Len(iter.it.block.columns) = 0) =>
        /\ Len(iter.yielded) <= 1
        /\ iter.done => Len(iter.yielded) = 1
        /\ \A k \in 1..Len(iter.yielded) :
               iter.yielded[k] = block /\ BlockEq(iter.yielded[k], block)

\* the chunks of an empty block that carries a header of its own, drained
C7_Witness ==
    /\ iter.active
    /\ iter.done
    /\ Len(iter.it.block.columns) = 0
    /\ iter.it.block.info # DefaultInfo
    /\ Len(iter.yielded) = 1

\* C3: get with a column selector that resolves to no column (a name no
\* column has, an index >= column_count()) or with row >= row_count()
\* returns an error and does not panic.
C3_GetNeverPanics ==
    (/\ res.op = "get"
     /\ \/ res.sel.by = "index" /\ res.sel.i >= Len(block.columns)
        \/ res.sel.by = "name"
               /\ \A i \in 1..Len(block.columns) : block.columns[i].name # res.sel.name
        \/ res.row >= FirstLen(block))
    => res.result.tag = "Err"

\* the packets the claim expects of send_data: one per chunk of at most
\* INSERT_BLOCK_SIZE rows, each with its own command tag and table name
ExpectedPackets(b) ==
    LET N == FirstLen(b)
        count == (N + INSERT_BLOCK_SIZE - 1) \div INSERT_BLOCK_SIZE
    IN  Flatten([k \in 1..count |->
            Uvarint(CLIENT_DATA) \o EncString(<<>>)
                \o BlockWrite([info |-> DefaultInfo,
                               columns |-> [i \in 1..Len(b.columns) |->
                                   ColumnSlice(b.columns[i], (k - 1) * INSERT_BLOCK_SIZE,
                                               Min(k * INSERT_BLOCK_SIZE, N))]])])

\* C8: send_data frames every chunk of at most INSERT_BLOCK_SIZE rows as a
\* packet of its own: each chunk's encoding is preceded by its own
\* CLIENT_DATA tag and empty table name, the chunks in row order.
C8_EveryChunkFramed ==
    (res.op = "send_data" /\ FirstLen(block) >= 1) => enc = ExpectedPackets(block)

\* the block was read from exactly the bytes write produced for res.sent
ReadBack == res.op = "load" /\ res.wire = BlockWrite(res.sent)

\* same column count, names in the same order, same row count
SameShape(a, b) ==
    /\ Len(a.columns) = Len(b.columns)
    /\ \A i \in 1..Len(b.columns) :
           /\ a.columns[i].name = b.columns[i].name
           /\ ColumnLen(a.columns[i]) = ColumnLen(b.columns[i])
    /\ RowCount(a) = RowCount(b)

\* C4 as claimed: load of the bytes of write(b) succeeds and returns a block
\* equal to b: same column count and order, same row count, the same value
\* at every (row, column).
C4_RoundTripAnyBlock ==
    ReadBack =>
        /\ res.tag = "Ok"
        /\ SameShape(block, res.sent)
        /\ \A i \in 1..Len(res.sent.columns) :
               \A r \in 0..(FirstLen(res.sent) - 1) :
                   ColumnAt(block.columns[i], r) = ColumnAt(res.sent.columns[i], r)
        /\ BlockEq(block, res.sent)

\* C4 as amended: load of the bytes of write(b) succeeds and returns a block
\* with b's column count, column order and row count; the value at every
\* (row, column) is b's, except that a cell of a column written through a
\* FixedStringAdapter comes back truncated / zero-padded to str_len bytes.
C4_RoundTripUpToFixedWidth ==
    ReadBack =>
        /\ res.tag = "Ok"
        /\ SameShape(block, res.sent)
        /\ \A i \in 1..Len(res.sent.columns) :
               \A r \in 0..(FirstLen(res.sent) - 1) :
                   LET cell == ColumnAt(res.sent.columns[i], r).val
                       c == res.sent.columns[i]
                   IN  ColumnAt(block.columns[i], r)
                           = Ok(IF c.kind = "FixedStringAdapter"
                                THEN Padded(cell, c.str_len) ELSE cell)

\* a block with a fixed-width column and a string column, two rows, read back
C4_Witness ==
    /\ ReadBack
    /\ res.tag = "Ok"
    /\ Len(res.sent.columns) = 2
    /\ FirstLen(res.sent) = 2
    /\ res.sent.columns[1].kind = "FixedString"
    /\ res.sent.columns[2].kind = "String"

====
